---- MODULE Spec2Model ----
(***************************************************************************)
(* Model of frontend/src/components/resources/server/stat-chart.tsx:       *)
(* the StatChart component (series transformation of the historical stats) *)
(* and the InnerStatChart component (time axis, unit choice, value axis).  *)
(*                                                                         *)
(* JavaScript numbers are modelled as exact fractions [n, d] in lowest     *)
(* terms with d >= 0; d = 0 encodes the non-finite values the code can     *)
(* produce: 1/0 is Infinity, -1/0 is -Infinity and 0/0 is NaN.             *)
(***************************************************************************)
EXTENDS Integers, Sequences, FiniteSets

VARIABLES
    tzOffset,     \* new Date().getTimezoneOffset() of the browser, in minutes
    type,         \* StatChart prop `type`
    data,         \* useRead(...).data
    isPending,    \* useRead(...).isPending
    rendered,     \* StatChart has rendered with the current data
    seriesData,   \* useMemo result of StatChart
    mounted,      \* InnerStatChart is in the tree
    stats,        \* InnerStatChart prop `stats` of the last render
    timeAxis,     \* InnerStatChart useMemo(.., []) result
    unit,         \* InnerStatChart useMemo(.., [type, maxStatValue]) result
    unitDivisor,
    maxUnitValue

vars == <<tzOffset, type, data, isPending, rendered, seriesData, mounted,
          stats, timeAxis, unit, unitDivisor, maxUnitValue>>

----------------------------------------------------------------------------
(* Bounds and input samples *)

MaxRecords == 3

StatTypes == {"Cpu", "Memory", "Disk", "Network Ingress", "Network Egress",
              "Load Average"}

NetworkTypes == {"Network Ingress", "Network Egress"}

TzOffsets == {0, -60}

TsValues == {0, 500, 2000}

ByteValues == {1024, 2097152}

----------------------------------------------------------------------------
(* Numbers *)

Abs(x) == IF x < 0 THEN -x ELSE x

Sign(x) == IF x < 0 THEN -1 ELSE IF x > 0 THEN 1 ELSE 0

RECURSIVE GCD(_, _)
GCD(a, b) == IF b = 0 THEN a ELSE GCD(b, a % b)

\* the number n / d, in lowest terms
Num(n, d) ==
    IF d = 0 THEN [n |-> Sign(n), d |-> 0]
    ELSE LET g == GCD(Abs(n), Abs(d))
         IN  [n |-> Sign(d) * (n \div g), d |-> Abs(d) \div g]

Int2Num(i) == [n |-> i, d |-> 1]

IsNaN(a) == a.n = 0 /\ a.d = 0

IsFinite(a) == a.d > 0

NumLe(a, b) == ~IsNaN(a) /\ ~IsNaN(b) /\ a.n * b.d <= b.n * a.d

NumLt(a, b) == NumLe(a, b) /\ a # b

NumMul(a, b) == Num(a.n * b.n, a.d * b.d)

NumDiv(a, b) == Num(a.n * b.d, a.d * b.n)

\* Math.max of two numbers
MathMax2(a, b) ==
    IF IsNaN(a) \/ IsNaN(b) THEN Num(0, 0)
    ELSE IF NumLe(a, b) THEN b ELSE a

\* Math.max(...values), -Infinity for no arguments
RECURSIVE MathMax(_)
MathMax(values) ==
    IF values = <<>> THEN Num(-1, 0)
    ELSE MathMax2(Head(values), MathMax(Tail(values)))

----------------------------------------------------------------------------
(* Sequences *)

\* Array.prototype.reverse on a copy
Reverse(s) == [i \in 1..Len(s) |-> s[Len(s) + 1 - i]]

\* series.flatMap((s) => s.data)
RECURSIVE FlatMapData(_)
FlatMapData(series) ==
    IF series = <<>> THEN <<>>
    ELSE Head(series).data \o FlatMapData(Tail(series))

----------------------------------------------------------------------------
(* Input samples: Types.SystemStatsRecord values. Optional fields that are  *)
(* absent are left out of the record's domain.                              *)

Has(s, f) == f \in DOMAIN s

LoadSamples ==
    { [one |-> Int2Num(0), five |-> Int2Num(0), fifteen |-> Int2Num(0)],
      [one |-> Num(1, 2), five |-> Num(3, 2), fifteen |-> Int2Num(1)] }

CpuRecords ==
    { [ts |-> t, mem_used_gb |-> 2, mem_total_gb |-> 8,
       disk_used_gb |-> 2, disk_total_gb |-> 8] : t \in TsValues }
    \cup
    { [ts |-> t, cpu_perc |-> c, mem_used_gb |-> 2, mem_total_gb |-> 8,
       disk_used_gb |-> 2, disk_total_gb |-> 8] : t \in TsValues, c \in {0, 50} }

MemoryRecords ==
    { [ts |-> t, cpu_perc |-> 50, mem_used_gb |-> m[1], mem_total_gb |-> m[2],
       disk_used_gb |-> 2, disk_total_gb |-> 8] :
         t \in TsValues, m \in {<<2, 8>>, <<0, 0>>, <<1, 0>>} }

DiskRecords ==
    { [ts |-> t, cpu_perc |-> 50, mem_used_gb |-> 2, mem_total_gb |-> 8,
       disk_used_gb |-> m[1], disk_total_gb |-> m[2]] :
         t \in TsValues, m \in {<<2, 8>>, <<0, 0>>, <<1, 0>>} }

IngressRecords ==
    { [ts |-> t, cpu_perc |-> 50, mem_used_gb |-> 2, mem_total_gb |-> 8,
       disk_used_gb |-> 2, disk_total_gb |-> 8,
       network_egress_bytes |-> 512] : t \in TsValues }
    \cup
    { [ts |-> t, cpu_perc |-> 50, mem_used_gb |-> 2, mem_total_gb |-> 8,
       disk_used_gb |-> 2, disk_total_gb |-> 8,
       network_ingress_bytes |-> b, network_egress_bytes |-> 512] :
         t \in TsValues, b \in ByteValues }

EgressRecords ==
    { [ts |-> t, cpu_perc |-> 50, mem_used_gb |-> 2, mem_total_gb |-> 8,
       disk_used_gb |-> 2, disk_total_gb |-> 8,
       network_ingress_bytes |-> 512] : t \in TsValues }
    \cup
    { [ts |-> t, cpu_perc |-> 50, mem_used_gb |-> 2, mem_total_gb |-> 8,
       disk_used_gb |-> 2, disk_total_gb |-> 8,
       network_ingress_bytes |-> 512, network_egress_bytes |-> b] :
         t \in TsValues, b \in ByteValues }

LoadRecords ==
    { [ts |-> t, cpu_perc |-> 50, mem_used_gb |-> 2, mem_total_gb |-> 8,
       disk_used_gb |-> 2, disk_total_gb |-> 8] : t \in TsValues }
    \cup
    { [ts |-> t, cpu_perc |-> 50, mem_used_gb |-> 2, mem_total_gb |-> 8,
       disk_used_gb |-> 2, disk_total_gb |-> 8, load_average |-> l] :
         t \in TsValues, l \in LoadSamples }

RecordsFor(t) ==
    CASE t = "Cpu" -> CpuRecords
      [] t = "Memory" -> MemoryRecords
      [] t = "Disk" -> DiskRecords
      [] t = "Network Ingress" -> IngressRecords
      [] t = "Network Egress" -> EgressRecords
      [] OTHER -> LoadRecords

SeqsUpTo(S, n) == UNION { [1..k -> S] : k \in 0..n }

\* stats lists of at most MaxRecords records, in any timestamp order
StatsFor(t) == SeqsUpTo(RecordsFor(t), MaxRecords)

\* the data source answers newest-first
NewestFirst(s) == \A i \in 1..(Len(s) - 1) : s[i].ts >= s[i + 1].ts

NoData == [defined |-> FALSE]

DataOf(s) == [defined |-> TRUE, stats |-> s]

----------------------------------------------------------------------------
(* StatChart: the series transformation *)

\* @lib/utils: shifts a UTC timestamp by the browser's timezone offset
ConvertTsMsToLocalUnixTsInMs(ts, tz) == ts - tz * 60 * 1000

\* s.load_average?.[field] ?? 0
LoadOf(s, field) ==
    IF Has(s, "load_average") THEN s.load_average[field] ELSE Int2Num(0)

LoadPoints(records, tz, field) ==
    [i \in 1..Len(records) |->
        [date |-> ConvertTsMsToLocalUnixTsInMs(records[i].ts, tz),
         value |-> LoadOf(records[i], field)]]

\* variant: the counters of the two directions are taken for each other
GetBytes_Swapped(s, t) ==
    IF t = "Network Ingress"
    THEN (IF Has(s, "network_egress_bytes") THEN s.network_egress_bytes ELSE 0)
    ELSE (IF Has(s, "network_ingress_bytes") THEN s.network_ingress_bytes ELSE 0)

GetBytes(s, t) ==
    IF t = "Network Ingress"
    THEN (IF Has(s, "network_ingress_bytes") THEN s.network_ingress_bytes ELSE 0)
    ELSE (IF Has(s, "network_egress_bytes") THEN s.network_egress_bytes ELSE 0)

\* variant: the difference of the counters without the clamp at 0
DeltaBytes_NoClamp(currBytes, prevBytes) == Int2Num(currBytes - prevBytes)

\* Math.max(0, currBytes - prevBytes)
DeltaBytes(currBytes, prevBytes) ==
    MathMax2(Int2Num(0), Int2Num(currBytes - prevBytes))

\* Math.max(1, (s.ts - prev.ts) / 1000)
DeltaSeconds(currTs, prevTs) ==
    MathMax2(Int2Num(1), Num(currTs - prevTs, 1000))

RatePoint(records, idx, t, tz) ==
    LET s == records[idx]
        date == ConvertTsMsToLocalUnixTsInMs(s.ts, tz)
    IN  IF idx = 1 THEN [date |-> date, value |-> Int2Num(0)]
        ELSE LET prev == records[idx - 1]
                 deltaBytes == DeltaBytes(GetBytes(s, t), GetBytes(prev, t))
                 deltaSeconds == DeltaSeconds(s.ts, prev.ts)
                 bytesPerSec == NumDiv(deltaBytes, deltaSeconds)
             IN  [date |-> date, value |-> bytesPerSec]

\* variant: the record without a predecessor gets no point
RatePoints_SkipFirst(records, t, tz) ==
    [idx \in 1..(Len(records) - 1) |-> RatePoint(records, idx + 1, t, tz)]

RatePoints(records, t, tz) ==
    [idx \in 1..Len(records) |-> RatePoint(records, idx, t, tz)]

\* stat.cpu_perc || 0
CpuOf(stat) ==
    IF Has(stat, "cpu_perc") THEN Int2Num(stat.cpu_perc) ELSE Int2Num(0)

GetStat(stat, t) ==
    CASE t = "Cpu" -> CpuOf(stat)
      [] t = "Memory" -> Num(100 * stat.mem_used_gb, stat.mem_total_gb)
      [] t = "Disk" -> Num(100 * stat.disk_used_gb, stat.disk_total_gb)
      [] t = "Network Ingress" ->
            Int2Num(IF Has(stat, "network_ingress_bytes")
                    THEN stat.network_ingress_bytes ELSE 0)
      [] t = "Network Egress" ->
            Int2Num(IF Has(stat, "network_egress_bytes")
                    THEN stat.network_egress_bytes ELSE 0)
      [] OTHER -> Int2Num(0)

SinglePoints(records, t, tz) ==
    [i \in 1..Len(records) |->
        [date |-> ConvertTsMsToLocalUnixTsInMs(records[i].ts, tz),
         value |-> GetStat(records[i], t)]]

\* !data?.stats
NoStats(d) == ~d.defined

\* variant: the stats are used in the received order
Records_NoReverse(d) == d.stats

\* [...data.stats].reverse()
Records(d) == Reverse(d.stats)

\* variant: the 5m and 15m series carry each other's field
SeriesData_SwappedLoad(d, t, tz) ==
    IF NoStats(d) THEN <<>>
    ELSE LET records == Records(d)
         IN  IF t = "Load Average"
             THEN << [label |-> "1m", data |-> LoadPoints(records, tz, "one")],
                     [label |-> "5m", data |-> LoadPoints(records, tz, "fifteen")],
                     [label |-> "15m", data |-> LoadPoints(records, tz, "five")] >>
             ELSE IF t \in NetworkTypes
             THEN << [label |-> t, data |-> RatePoints(records, t, tz)] >>
             ELSE << [label |-> t, data |-> SinglePoints(records, t, tz)] >>

SeriesData(d, t, tz) ==
    IF NoStats(d) THEN <<>>
    ELSE LET records == Records(d)
         IN  IF t = "Load Average"
             THEN << [label |-> "1m", data |-> LoadPoints(records, tz, "one")],
                     [label |-> "5m", data |-> LoadPoints(records, tz, "five")],
                     [label |-> "15m", data |-> LoadPoints(records, tz, "fifteen")] >>
             ELSE IF t \in NetworkTypes
             THEN << [label |-> t, data |-> RatePoints(records, t, tz)] >>
             ELSE << [label |-> t, data |-> SinglePoints(records, t, tz)] >>

\* seriesData.flatMap((s) => s.data)
AllPoints(sd) == FlatMapData(sd)

----------------------------------------------------------------------------
(* InnerStatChart *)

BYTES_PER_MB == 1048576

BYTES_PER_KB == 1024

\* new Date(x): the time value is x truncated toward zero
NewDate(x) == Sign(x.n) * (Abs(x.n) \div x.d)

\* stats?.[0]?.date ?? 0
MinOf(st) == IF Len(st) > 0 THEN st[1].date ELSE 0

\* stats?.[stats.length - 1]?.date ?? 0
MaxOf(st) == IF Len(st) > 0 THEN st[Len(st)].date ELSE 0

\* diff * 0.02
Padding(diff) == Num(diff * 2, 100)

NumAdd(a, b) == Num(a.n * b.d + b.n * a.d, a.d * b.d)

NumSub(a, b) == Num(a.n * b.d - b.n * a.d, a.d * b.d)

\* the axis options built from one render's min, max and diff
TimeAxis(st) ==
    LET min == MinOf(st)
        max == MaxOf(st)
        diff == max - min
    IN  [hardMax |-> NewDate(NumAdd(Int2Num(max), Padding(diff))),
         hardMin |-> NewDate(NumSub(Int2Num(min), Padding(diff)))]

\* useMemo(() => ..., []): computed on mount, kept on every later render
TimeAxisMemo(wasMounted, old, st) == IF wasMounted THEN old ELSE TimeAxis(st)

ValuesOf(points) == [i \in 1..Len(points) |-> points[i].value]

AllValues(sd) == ValuesOf(AllPoints(sd))

\* variant: the maximum is taken over the first series only
MaxStatValue_FirstSeries(sd) ==
    LET allValues == IF Len(sd) > 0 THEN ValuesOf(sd[1].data) ELSE <<>>
    IN  MathMax(IF Len(allValues) > 0 THEN allValues ELSE <<Int2Num(0)>>)

\* Math.max(...(allValues.length ? allValues : [0]))
MaxStatValue(sd) ==
    LET allValues == AllValues(sd)
    IN  MathMax(IF Len(allValues) > 0 THEN allValues ELSE <<Int2Num(0)>>)

\* variant: the unit thresholds are exclusive
Choose_Strict(maxStatValue) ==
    IF NumLt(Int2Num(BYTES_PER_MB), maxStatValue)
    THEN [unit |-> "MB/s", unitDivisor |-> Int2Num(BYTES_PER_MB)]
    ELSE IF NumLt(Int2Num(BYTES_PER_KB), maxStatValue)
    THEN [unit |-> "KB/s", unitDivisor |-> Int2Num(BYTES_PER_KB)]
    ELSE [unit |-> "B/s", unitDivisor |-> Int2Num(1)]

Choose(maxStatValue) ==
    IF NumLe(Int2Num(BYTES_PER_MB), maxStatValue)
    THEN [unit |-> "MB/s", unitDivisor |-> Int2Num(BYTES_PER_MB)]
    ELSE IF NumLe(Int2Num(BYTES_PER_KB), maxStatValue)
    THEN [unit |-> "KB/s", unitDivisor |-> Int2Num(BYTES_PER_KB)]
    ELSE [unit |-> "B/s", unitDivisor |-> Int2Num(1)]

\* variant: no fallback for a maximum of 0
Headroom_NoFallback(maxStatValue) == NumMul(maxStatValue, Num(12, 10))

\* maxStatValue === 0 ? 1 : maxStatValue * 1.2
Headroom(maxStatValue) ==
    IF maxStatValue = Int2Num(0) THEN Int2Num(1)
    ELSE NumMul(maxStatValue, Num(12, 10))

UnitMemo(t, maxStatValue) ==
    IF t \in NetworkTypes
    THEN LET chosen == Choose(maxStatValue)
         IN  [unit |-> chosen.unit, unitDivisor |-> chosen.unitDivisor,
              maxUnitValue |-> NumDiv(Headroom(maxStatValue), chosen.unitDivisor)]
    ELSE IF t = "Load Average"
    THEN [unit |-> "", unitDivisor |-> Int2Num(1),
          maxUnitValue |-> Headroom(maxStatValue)]
    ELSE [unit |-> "", unitDivisor |-> Int2Num(1), maxUnitValue |-> Int2Num(100)]

\* valueAxis[0].getValue
GetValue(datum, t, divisor) ==
    IF t \in NetworkTypes THEN NumDiv(datum.value, divisor) ELSE datum.value

----------------------------------------------------------------------------
(* Rendering *)

NoAxis == [hardMax |-> 0, hardMin |-> 0]

\* InnerStatChart is rendered: isPending is false and seriesData.length > 0
ShowsChart(pending, sd) == ~pending /\ Len(sd) > 0

RenderInnerStatChart(t, st, sd) ==
    LET memo == UnitMemo(t, MaxStatValue(sd))
    IN  /\ mounted' = TRUE
        /\ stats' = st
        /\ timeAxis' = TimeAxisMemo(mounted, timeAxis, st)
        /\ unit' = memo.unit
        /\ unitDivisor' = memo.unitDivisor
        /\ maxUnitValue' = memo.maxUnitValue

\* the Loader2 spinner or null is rendered in place of the chart
UnmountInnerStatChart ==
    /\ mounted' = FALSE
    /\ stats' = <<>>
    /\ timeAxis' = NoAxis
    /\ unit' = ""
    /\ unitDivisor' = Int2Num(1)
    /\ maxUnitValue' = Int2Num(0)

\* one render of StatChart with the new hook results and props
RenderStatChart ==
    LET sd == SeriesData(data', type', tzOffset')
    IN  /\ rendered' = TRUE
        /\ seriesData' = sd
        /\ IF ShowsChart(isPending', sd)
           THEN RenderInnerStatChart(type', AllPoints(sd), sd)
           ELSE UnmountInnerStatChart

----------------------------------------------------------------------------
(* The transformation applied once to every bounded input *)

Init ==
    /\ tzOffset \in TzOffsets
    /\ type \in StatTypes
    /\ data \in { DataOf(s) : s \in StatsFor(type) }
    /\ isPending = FALSE
    /\ rendered = FALSE
    /\ seriesData = <<>>
    /\ mounted = FALSE
    /\ stats = <<>>
    /\ timeAxis = NoAxis
    /\ unit = ""
    /\ unitDivisor = Int2Num(1)
    /\ maxUnitValue = Int2Num(0)

Render ==
    /\ ~rendered
    /\ UNCHANGED <<tzOffset, type, data, isPending>>
    /\ RenderStatChart

Next == Render

Spec == Init /\ [][Next]_vars

----------------------------------------------------------------------------
(* The mounted component over the life of the query *)

\* one record per timestamp: the fields of the requested kind are present
Typical(r, t) ==
    /\ Has(r, "cpu_perc") /\ r.cpu_perc = 50
    /\ r.mem_total_gb = 8
    /\ r.disk_total_gb = 8
    /\ ~Has(r, "load_average")
    /\ t \in NetworkTypes =>
          Has(r, "network_ingress_bytes") /\ Has(r, "network_egress_bytes")
          /\ r.network_ingress_bytes \in {512, 1024}
          /\ r.network_egress_bytes \in {512, 1024}

\* the stats lists the data source answers with for a server that has a
\* history: at least one record, newest record first
LifeStats(t) ==
    { s \in SeqsUpTo({ r \in RecordsFor(t) : Typical(r, t) }, MaxRecords) :
        Len(s) > 0 /\ NewestFirst(s) }

InitLife ==
    /\ tzOffset \in TzOffsets
    /\ type \in StatTypes
    /\ data = NoData
    /\ isPending = TRUE
    /\ rendered = TRUE
    /\ seriesData = <<>>
    /\ mounted = FALSE
    /\ stats = <<>>
    /\ timeAxis = NoAxis
    /\ unit = ""
    /\ unitDivisor = Int2Num(1)
    /\ maxUnitValue = Int2Num(0)

\* the query resolves, or a refetch of the same query brings new data
QuerySuccess(s) ==
    /\ data' = DataOf(s)
    /\ isPending' = FALSE
    /\ UNCHANGED <<tzOffset, type>>
    /\ RenderStatChart

\* the first fetch of the query fails: no data and no longer pending
QueryError ==
    /\ isPending
    /\ data' = NoData
    /\ isPending' = FALSE
    /\ UNCHANGED <<tzOffset, type>>
    /\ RenderStatChart

\* the granularity changes: a new query without data starts
GranularityChange ==
    /\ ~isPending
    /\ data' = NoData
    /\ isPending' = TRUE
    /\ UNCHANGED <<tzOffset, type>>
    /\ RenderStatChart

NextLife ==
    \/ \E s \in LifeStats(type) : QuerySuccess(s)
    \/ QueryError
    \/ GranularityChange

SpecLife == InitLife /\ [][NextLife]_vars

----------------------------------------------------------------------------
(* Properties *)

NumRecords == Len(data.stats)

\* the i-th record in oldest-first order: the received list read from its end
OldestFirst(i) == data.stats[NumRecords + 1 - i]

\* the cumulative counter of the requested kind, 0 when absent
CounterOf(r) ==
    IF type = "Network Ingress"
    THEN (IF "network_ingress_bytes" \in DOMAIN r THEN r.network_ingress_bytes ELSE 0)
    ELSE (IF "network_egress_bytes" \in DOMAIN r THEN r.network_egress_bytes ELSE 0)

\* the rate of the reference at oldest-first index i
ReferenceRate(i) ==
    IF i = 1 THEN [n |-> 0, d |-> 1]
    ELSE LET db == CounterOf(OldestFirst(i)) - CounterOf(OldestFirst(i - 1))
             dms == OldestFirst(i).ts - OldestFirst(i - 1).ts
             bytes == IF db > 0 THEN db ELSE 0
         IN  IF dms > 1000 THEN Num(bytes * 1000, dms) ELSE Num(bytes, 1)

\* m is the largest value of the points handed to InnerStatChart, 0 if none
IsMaxOfStats(m) ==
    IF Len(stats) = 0 THEN m = [n |-> 0, d |-> 1]
    ELSE /\ \E i \in 1..Len(stats) : stats[i].value = m
         /\ \A i \in 1..Len(stats) : stats[i].value.n * m.d <= m.n * stats[i].value.d

\* the divisor of the displayed unit
DivisorOf(u) == IF u = "MB/s" THEN 1048576 ELSE IF u = "KB/s" THEN 1024 ELSE 1

\* C1: for a stats list with zero records the series list is empty, for every
\* metric kind, and the chart is not rendered
C1_EmptyInputEmptySeries ==
    (rendered /\ data.defined /\ NumRecords = 0)
        => (seriesData = <<>> /\ ~mounted)

\* C2: on every render the hard bounds of the time axis are
\* [min - 0.02 * diff, max + 0.02 * diff] for the smallest and largest
\* timestamp of the points of that same render
C2_TimeAxisOfThisRender ==
    (mounted /\ Len(stats) > 0) =>
        \A lo, hi \in { stats[i].date : i \in 1..Len(stats) } :
            ((\A i \in 1..Len(stats) : lo <= stats[i].date /\ stats[i].date <= hi)
             => /\ 50 * timeAxis.hardMin = 50 * lo - (hi - lo)
                /\ 50 * timeAxis.hardMax = 50 * hi + (hi - lo))

\* C3: every produced series has exactly as many points as there are input
\* records
C3_PointCount ==
    rendered =>
        \A k \in 1..Len(seriesData) : Len(seriesData[k].data) = NumRecords

C3_Witness ==
    /\ rendered
    /\ type \in NetworkTypes
    /\ NumRecords >= 2
    /\ \E i \in 1..NumRecords : CounterOf(data.stats[i]) = 0
    /\ Len(seriesData) = 1
    /\ Len(seriesData[1].data) = NumRecords

\* C4: for a non-empty record sequence Load Average gives the three series
\* "1m", "5m", "15m" in that order with load_average.one, .five, .fifteen
\* (0 when absent); every other kind gives exactly one series
C4_SeriesCount ==
    (rendered /\ NumRecords > 0) =>
        IF type = "Load Average"
        THEN /\ Len(seriesData) = 3
             /\ seriesData[1].label = "1m"
             /\ seriesData[2].label = "5m"
             /\ seriesData[3].label = "15m"
             /\ \A i \in 1..NumRecords :
                  LET r == OldestFirst(i)
                      zero == [n |-> 0, d |-> 1]
                      has == "load_average" \in DOMAIN r
                  IN  /\ seriesData[1].data[i].value =
                            (IF has THEN r.load_average.one ELSE zero)
                      /\ seriesData[2].data[i].value =
                            (IF has THEN r.load_average.five ELSE zero)
                      /\ seriesData[3].data[i].value =
                            (IF has THEN r.load_average.fifteen ELSE zero)
        ELSE Len(seriesData) = 1

C4_Witness ==
    /\ rendered
    /\ type = "Load Average"
    /\ NumRecords >= 2
    /\ \E i \in 1..NumRecords : "load_average" \notin DOMAIN data.stats[i]
    /\ \E i \in 1..NumRecords :
          /\ "load_average" \in DOMAIN OldestFirst(i)
          /\ seriesData[2].data[i].value = [n |-> 3, d |-> 2]
          /\ seriesData[3].data[i].value = [n |-> 1, d |-> 1]
    /\ Len(seriesData) = 3

C6_RateNonNegative ==
    (rendered /\ type \in NetworkTypes) =>
        \A k \in 1..Len(seriesData) : \A i \in 1..Len(seriesData[k].data) :
            LET v == seriesData[k].data[i].value
            IN  v.d > 0 /\ v.n >= 0

C6_Witness ==
    /\ rendered
    /\ type \in NetworkTypes
    /\ \E i \in 2..NumRecords :
          /\ CounterOf(OldestFirst(i)) < CounterOf(OldestFirst(i - 1))
          /\ seriesData[1].data[i].value = [n |-> 0, d |-> 1]
    /\ \E i \in 2..NumRecords :
          /\ OldestFirst(i).ts <= OldestFirst(i - 1).ts
          /\ CounterOf(OldestFirst(i)) > CounterOf(OldestFirst(i - 1))
          /\ seriesData[1].data[i].value.n > 0

\* C7: for the network kinds the unit is one choice over the whole series:
\* MB/s (divisor 1048576) when maxRate >= 1048576, KB/s (divisor 1024) when
\* 1024 <= maxRate < 1048576, else B/s (divisor 1), and every plotted point
\* is its stored value divided by that one divisor
C7_UnitChoice ==
    (mounted /\ type \in NetworkTypes) =>
        \A m \in { stats[i].value : i \in 1..Len(stats) } \cup {[n |-> 0, d |-> 1]} :
            IsMaxOfStats(m) =>
                /\ unit = (IF m.n >= 1048576 * m.d THEN "MB/s"
                           ELSE IF m.n >= 1024 * m.d THEN "KB/s" ELSE "B/s")
                /\ unitDivisor = [n |-> DivisorOf(unit), d |-> 1]
                /\ \A i \in 1..Len(stats) :
                      GetValue(stats[i], type, unitDivisor)
                          = Num(stats[i].value.n, stats[i].value.d * DivisorOf(unit))

C7_Witness ==
    /\ mounted
    /\ type \in NetworkTypes
    /\ unit = "MB/s"
    /\ \E i \in 1..Len(stats) :
          /\ stats[i].value.n > 0
          /\ stats[i].value.n < 1024 * stats[i].value.d
          /\ GetValue(stats[i], type, unitDivisor).n * 1024
                < GetValue(stats[i], type, unitDivisor).d

\* C8: the maximum of the value axis is strictly positive: 100 for Cpu,
\* Memory and Disk, (max == 0 ? 1 : max * 1.2) for Load Average, and
\* (max == 0 ? 1 : max * 1.2) / divisor for the network kinds
C8_AxisMaxPositive ==
    mounted =>
        /\ maxUnitValue.d > 0 /\ maxUnitValue.n > 0
        /\ type \in {"Cpu", "Memory", "Disk"} => maxUnitValue = [n |-> 100, d |-> 1]
        /\ type \in NetworkTypes \cup {"Load Average"} =>
              \A m \in { stats[i].value : i \in 1..Len(stats) } \cup {[n |-> 0, d |-> 1]} :
                  IsMaxOfStats(m) =>
                      maxUnitValue =
                          (IF m.n = 0 THEN Num(1, DivisorOf(unit))
                           ELSE Num(12 * m.n, 10 * m.d * DivisorOf(unit)))

C8_Witness ==
    /\ mounted
    /\ type \in NetworkTypes \cup {"Load Average"}
    /\ Len(stats) >= 2
    /\ \A i \in 1..Len(stats) : stats[i].value = [n |-> 0, d |-> 1]
    /\ maxUnitValue = [n |-> 1, d |-> 1]

C10_PlottedWithinAxis ==
    (mounted /\ type \in NetworkTypes \cup {"Load Average"}) =>
        \A k \in 1..Len(seriesData) : \A i \in 1..Len(seriesData[k].data) :
            LET v == GetValue(seriesData[k].data[i], type, unitDivisor)
            IN  /\ v.d > 0 /\ v.n >= 0
                /\ v.n * maxUnitValue.d <= maxUnitValue.n * v.d

C10_Witness ==
    /\ mounted
    /\ type = "Load Average"
    /\ \E i \in 1..Len(seriesData[2].data) :
          /\ seriesData[2].data[i].value = [n |-> 3, d |-> 2]
          /\ seriesData[1].data[i].value = [n |-> 1, d |-> 2]
    /\ maxUnitValue = [n |-> 9, d |-> 5]

====
